---- MODULE Spec2Model ----
(***************************************************************************)
(* Verification model of the motion-control core of the go1 quadruped      *)
(* robot: the contact-constraint base class (qrContactSpec), the motor     *)
(* command assembler (qrRobot), the cached velocity command                *)
(* (qrVelocityParamReceiver) and the pseudo-inverse (math::pseudoInverse). *)
(*                                                                         *)
(* The four components share no state.  Each has its own specification     *)
(* (SpecContact, SpecRobot, SpecVel, SpecPinv) in which the other three    *)
(* components stay in one freshly constructed state.                       *)
(***************************************************************************)
EXTENDS Integers, Sequences, FiniteSets, TLC

(***************************************************************************)
(* Bounds of the model.                                                    *)
(***************************************************************************)
\* largest contact-space dimension passed to the qrContactSpec constructor
MaxDim == 2
\* number of distinct kinematic states the derivation hooks can see
MaxKin == 1
\* largest diagonal entry (in magnitude) of a pseudoInverse input
MaxEntry == 3
\* largest singular-value threshold of a pseudoInverse input
MaxThreshold == 2
\* largest size of a (diagonal) pseudoInverse input
MaxSize == 2
\* joint inputs, gains and torques are drawn from 0..MaxVal
MaxVal == 2
\* configuration files are named 1..MaxPath
MaxPath == 2
\* velocity components of a Twist message are drawn from 0..MaxSpeed
MaxSpeed == 1

VARIABLES
  \* ---- qrContactSpec ----
  contact,        \* the object's fields (qr_contact_spec.hpp:112-120)
  \* the next three describe the UpdateqrContactSpec call when it was the last
  \* operation, and are empty / FALSE after any other operation
  callLog,        \* hooks run and fields written by the call, in order
  hookRet,        \* what the four hooks returned, in call order
  updateRet,      \* what the call returned
  flagBefore,     \* b_set_contact_ just before the last operation
  contactOp,      \* the last operation on the object
  \* ---- math::pseudoInverse ----
  matrix,         \* the input: the diagonal of a square diagonal matrix
  sigmaThreshold, \* the input threshold
  invMatrix,      \* the output: the diagonal of the result, entries as fractions
  pinvPc,         \* "input" before the call, "done" after it
  \* ---- qrRobot ----
  stop,           \* qrRobot::stop
  robotConfig,    \* qrRobot::robotConfig: Null or the configuration object's gains
  cmds,           \* qrRobot::cmds, the held array of 12 motor commands
  got,            \* what GetCmd returned, if it ran after the last SetCmd; else << >>
  robotOp,        \* the last mutating operation on the robot
  prevOp,         \* the mutating operation before it
  inVec,          \* the 12-vector the last SetCmd was given (zero if it took none)
  inMat,          \* the 5x12 matrix the last SetCmd was given (zero if it took none)
  nullRead,       \* robotConfig was dereferenced while null
  crashed,        \* the process died on a null dereference
  numCreated,     \* configuration objects created so far
  \* ---- qrVelocityParamReceiver ----
  linearVel,      \* the cached linear velocity
  angularVel,     \* the cached angular velocity
  cbPc,           \* the callback's position: "idle" or "line50" (line 49 done)
  cbMsg,          \* the message the running callback was given
  latest,         \* the most recently received message (NoMsg before the first)
  rdPc,           \* the control loop's position in its tick
  retLinear,      \* what the tick's GetLinearVelocity() returned
  retAngular,     \* what the tick's GetAngularVelocity() returned
  retAxis,        \* what the tick's GetAngularVelocity(2) returned
  seenLinear,     \* the most recently received message when GetLinearVelocity() ran
  seenAngular     \* the most recently received message when GetAngularVelocity() ran

contactVars == <<contact, callLog, hookRet, updateRet, flagBefore, contactOp>>
pinvVars == <<matrix, sigmaThreshold, invMatrix, pinvPc>>
robotVars == <<stop, robotConfig, cmds, got, robotOp, prevOp, inVec, inMat, nullRead, crashed,
               numCreated>>
velVars == <<linearVel, angularVel, cbPc, cbMsg, latest, rdPc, retLinear, retAngular,
             retAxis, seenLinear, seenAngular>>

(***************************************************************************)
(* qrContactSpec<T>                                                        *)
(*                                                                         *)
(* A matrix or vector that a hook derives is represented by the kinematic  *)
(* state it was derived from (1..MaxKin); 0 is the default-constructed     *)
(* (empty) Eigen object.  Fr_des_ is a sequence of numbers.                *)
(***************************************************************************)
Dims == 1..MaxDim
KinStates == 1..MaxKin
\* the entries a desired reaction force is drawn from
Forces == {0, 1}

RECURSIVE SeqsOfLen(_, _)
SeqsOfLen(S, n) ==
  IF n = 0 THEN {<< >>}
  ELSE {Append(s, x) : s \in SeqsOfLen(S, n - 1), x \in S}

\* DVec<T>::Zero(dim)
ZeroVec(dim) == [k \in 1..dim |-> 0]

\* qrContactSpec(size_t dim)
qrContactSpecCtor(dim) ==
  [ dim_contact_ |-> dim,
    b_set_contact_ |-> FALSE,
    idx_Fz_ |-> dim - 1,
    Fr_des_ |-> ZeroVec(dim),
    Jc_ |-> 0,
    JcDotQdot_ |-> 0,
    Uf_ |-> 0,
    ieq_vec_ |-> 0 ]

\* The run of one UpdateqrContactSpec call: the object, the log of what has
\* run so far and the values the hooks returned so far.
StartRun(c) == [c |-> c, log |-> << >>, rets |-> << >>]

\* The pure virtual hooks.  A concrete variant derives its quantity from the
\* current kinematic state kin and reports success; a hook that reports
\* failure leaves its quantity as it was.
UpdateJc(s, kin, ok) ==
  [ c |-> IF ok THEN [s.c EXCEPT !.Jc_ = kin] ELSE s.c,
    log |-> Append(s.log, "_UpdateJc"),
    rets |-> Append(s.rets, ok) ]

UpdateJcDotQdot(s, kin, ok) ==
  [ c |-> IF ok THEN [s.c EXCEPT !.JcDotQdot_ = kin] ELSE s.c,
    log |-> Append(s.log, "_UpdateJcDotQdot"),
    rets |-> Append(s.rets, ok) ]

UpdateUf(s, kin, ok) ==
  [ c |-> IF ok THEN [s.c EXCEPT !.Uf_ = kin] ELSE s.c,
    log |-> Append(s.log, "_UpdateUf"),
    rets |-> Append(s.rets, ok) ]

UpdateInequalityVector(s, kin, ok) ==
  [ c |-> IF ok THEN [s.c EXCEPT !.ieq_vec_ = kin] ELSE s.c,
    log |-> Append(s.log, "_UpdateInequalityVector"),
    rets |-> Append(s.rets, ok) ]

\* b_set_contact_ = true;
SetContactFlag(s) ==
  [ c |-> [s.c EXCEPT !.b_set_contact_ = TRUE],
    log |-> Append(s.log, "b_set_contact_"),
    rets |-> s.rets ]

\* A variant of UpdateqrContactSpec that derives the friction matrix before
\* the bias term.
UpdateqrContactSpec_UfFirst(c, kin, oks) ==
  [ run |-> SetContactFlag(
              UpdateInequalityVector(
                UpdateJcDotQdot(
                  UpdateUf(
                    UpdateJc(StartRun(c), kin, oks[1]),
                    kin, oks[2]),
                  kin, oks[3]),
                kin, oks[4])),
    ret |-> TRUE ]

\* bool UpdateqrContactSpec(): the four hooks in the order of the code, their
\* return values dropped, then the flag, then "return true".
UpdateqrContactSpec(c, kin, oks) ==
  [ run |-> SetContactFlag(
              UpdateInequalityVector(
                UpdateUf(
                  UpdateJcDotQdot(
                    UpdateJc(StartRun(c), kin, oks[1]),
                    kin, oks[2]),
                  kin, oks[3]),
                kin, oks[4])),
    ret |-> TRUE ]

\* A variant of UnsetContact that also drops the cached friction constraint.
UnsetContact_ClearsUf(c) ==
  [c EXCEPT !.b_set_contact_ = FALSE, !.Uf_ = 0, !.ieq_vec_ = 0]

\* void UnsetContact()
UnsetContact(c) == [c EXCEPT !.b_set_contact_ = FALSE]

\* void setRFDesired(const DVec<T>& Fr_des)
setRFDesired(c, Fr_des) == [c EXCEPT !.Fr_des_ = Fr_des]

InitContact ==
  /\ \E dim \in Dims : contact = qrContactSpecCtor(dim)
  /\ callLog = << >>
  /\ hookRet = << >>
  /\ updateRet = FALSE
  /\ flagBefore = FALSE
  /\ contactOp = "ctor"

\* One fixed freshly constructed object, for the other specifications.
ParkedContact ==
  /\ contact = qrContactSpecCtor(1)
  /\ callLog = << >>
  /\ hookRet = << >>
  /\ updateRet = FALSE
  /\ flagBefore = FALSE
  /\ contactOp = "ctor"

DoUpdateqrContactSpec ==
  \E kin \in KinStates, oks \in [1..4 -> BOOLEAN] :
    LET r == UpdateqrContactSpec(contact, kin, oks) IN
      /\ contact' = r.run.c
      /\ callLog' = r.run.log
      /\ hookRet' = r.run.rets
      /\ updateRet' = r.ret
      /\ flagBefore' = contact.b_set_contact_
      /\ contactOp' = "UpdateqrContactSpec"

DoUnsetContact ==
  /\ contact' = UnsetContact(contact)
  /\ flagBefore' = contact.b_set_contact_
  /\ contactOp' = "UnsetContact"
  /\ callLog' = << >>
  /\ hookRet' = << >>
  /\ updateRet' = FALSE

DoSetRFDesired ==
  \E Fr_des \in SeqsOfLen(Forces, contact.dim_contact_) :
    /\ contact' = setRFDesired(contact, Fr_des)
    /\ flagBefore' = contact.b_set_contact_
    /\ contactOp' = "setRFDesired"
    /\ callLog' = << >>
    /\ hookRet' = << >>
    /\ updateRet' = FALSE

(***************************************************************************)
(* math::pseudoInverse                                                     *)
(*                                                                         *)
(* The input is a square diagonal matrix, given by its diagonal; a result  *)
(* entry is the fraction num/den with den > 0.                             *)
(***************************************************************************)
Entries == (0 - MaxEntry)..MaxEntry
Thresholds == 0..MaxThreshold

Abs(x) == IF x < 0 THEN 0 - x ELSE x

\* 1.0 / x for x # 0
Reciprocal(x) == IF x > 0 THEN [num |-> 1, den |-> x] ELSE [num |-> 0 - 1, den |-> 0 - x]

\* 0.0
ZeroFrac == [num |-> 0, den |-> 1]

\* The 1x1 special case (lines 85-93): the entry itself is compared.
pseudoInverse1x1(m, thr) ==
  IF m > thr THEN Reciprocal(m) ELSE ZeroFrac

\* The SVD path (lines 95-110) on diag(d): the singular values are |d[k]|,
\* U carries the signs, so V * invS * U^T = diag(sign(d[k]) * invS[k]).
pseudoInverseSVD(d, thr) ==
  [k \in 1..Len(d) |-> IF Abs(d[k]) > thr THEN Reciprocal(d[k]) ELSE ZeroFrac]

\* void pseudoInverse(matrix, sigmaThreshold, invMatrix)
pseudoInverse(d, thr) ==
  IF Len(d) = 1 THEN <<pseudoInverse1x1(d[1], thr)>>
  ELSE pseudoInverseSVD(d, thr)

InitPinv ==
  /\ \E n \in 1..MaxSize : matrix \in SeqsOfLen(Entries, n)
  /\ sigmaThreshold \in Thresholds
  /\ invMatrix = << >>
  /\ pinvPc = "input"

ParkedPinv ==
  /\ matrix = <<1>>
  /\ sigmaThreshold = 0
  /\ invMatrix = << >>
  /\ pinvPc = "input"

DoPseudoInverse ==
  /\ pinvPc = "input"
  /\ invMatrix' = pseudoInverse(matrix, sigmaThreshold)
  /\ pinvPc' = "done"
  /\ UNCHANGED <<matrix, sigmaThreshold>>


(***************************************************************************)
(* qrRobot: the motor command assembler                                    *)
(*                                                                         *)
(* Numbers are small naturals.  A 12-vector is a function on Joints, a     *)
(* 5x12 matrix a function from rows 0..4 to 12-vectors.  Inputs are        *)
(* generated so that neighbouring joints and neighbouring rows carry       *)
(* different values.                                                       *)
(***************************************************************************)
\* qrRobotConfig::numMotor
numMotor == 12
Joints == 0..(numMotor - 1)
Vals == 0..MaxVal
ValMod == MaxVal + 1
Paths == 1..MaxPath
\* nullptr: a configuration with no gains behind it
Null == [motorKps |-> << >>, motorKds |-> << >>]

\* The 12-vectors a caller passes: entry i is (a + b*i) mod ValMod.
GenVec(a, b) == [i \in Joints |-> (a + b * i) % ValMod]
InputVecs == {GenVec(a, b) : a \in Vals, b \in 0..1}
ZeroVec12 == [i \in Joints |-> 0]

\* The 5x12 matrices a caller passes: entry (r, i) is (a + r + i) mod ValMod.
GenMat(a) == [r \in 0..4 |-> [i \in Joints |-> (a + r + i) % ValMod]]
InputMats == {GenMat(a) : a \in Vals}
ZeroMat == [r \in 0..4 |-> ZeroVec12]

\* qrMotorCmd::SetCmd(q, Kp, dq, Kd, tau): the five values of one command.
qrMotorCmd_SetCmd(q, Kp, dq, Kd, tau) ==
  [q |-> q, Kp |-> Kp, dq |-> dq, Kd |-> Kd, tau |-> tau]

\* The pre-built command arrays a caller passes.
GenCmds(a) ==
  [i \in Joints |-> qrMotorCmd_SetCmd((a + i) % ValMod, (a + i + 1) % ValMod, a,
                                      (a + 2 * i) % ValMod, (a + i + 2) % ValMod)]
InputCmds == {GenCmds(a) : a \in Vals}

\* qrRobotConfig(path) / qrRobotConfig::Load(path): the gains the file holds.
qrRobotConfig_Load(path) ==
  [ motorKps |-> [i \in Joints |-> (path + i) % ValMod],
    motorKds |-> [i \in Joints |-> (path + 2 * i + 1) % ValMod] ]

\* void qrRobot::LoadConfig(path): create the configuration when there is
\* none, else reload the existing object.  Yields the pointer's new target
\* and the number of objects created by the call.
LoadConfig(cfg, path) ==
  IF cfg = Null
    THEN [cfg |-> qrRobotConfig_Load(path), created |-> 1]
    ELSE [cfg |-> qrRobotConfig_Load(path), created |-> 0]

\* A variant of SetAngleCmd that takes joint i's gains from joint i+1.
SetAngleCmd_ShiftedGains(c, Kps, Kds, qValues) ==
  [i \in Joints |->
     qrMotorCmd_SetCmd(qValues[i], Kps[(i + 1) % numMotor], 0, Kds[(i + 1) % numMotor], 0)]

\* A variant of SetAngleCmd that keeps the target velocity and torque the
\* command held before.
SetAngleCmd_KeepsRest(c, Kps, Kds, qValues) ==
  [i \in Joints |-> qrMotorCmd_SetCmd(qValues[i], Kps[i], c[i].dq, Kds[i], c[i].tau)]

\* void qrRobot::SetAngleCmd(qValues), with robotConfig->motorKps and
\* robotConfig->motorKds as read by the call.
SetAngleCmd(c, Kps, Kds, qValues) ==
  [i \in Joints |-> qrMotorCmd_SetCmd(qValues[i], Kps[i], 0, Kds[i], 0)]

\* A variant of SetTorqueCmd that writes only the torque field.
SetTorqueCmd_OnlyTau(c, tauValues) ==
  [i \in Joints |-> [c[i] EXCEPT !.tau = tauValues[i]]]

\* void qrRobot::SetTorqueCmd(tauValues)
SetTorqueCmd(c, tauValues) ==
  [i \in Joints |-> qrMotorCmd_SetCmd(0, 0, 0, 0, tauValues[i])]

\* A variant of SetHybridCmd that passes row 2 as the position gain and
\* row 1 as the target velocity.
SetHybridCmd_Rows12Swapped(c, cmdValues) ==
  [i \in Joints |->
     qrMotorCmd_SetCmd(cmdValues[0][i], cmdValues[2][i], cmdValues[1][i],
                       cmdValues[3][i], cmdValues[4][i])]

\* void qrRobot::SetHybridCmd(cmdValues)
SetHybridCmd(c, cmdValues) ==
  [i \in Joints |->
     qrMotorCmd_SetCmd(cmdValues[0][i], cmdValues[1][i], cmdValues[2][i],
                       cmdValues[3][i], cmdValues[4][i])]

\* void qrRobot::SetCmd(const std::array<qrMotorCmd, 12> cmd)
SetCmdArray(c, cmd) == [i \in Joints |-> cmd[i]]

\* std::array<qrMotorCmd, 12> qrRobot::GetCmd()
GetCmd(c) == c

\* qrRobot::qrRobot() and qrRobot::qrRobot(path).  The command array is
\* default-constructed; its content is whatever qrMotorCmd's constructor
\* leaves, drawn here from the pre-built arrays.
InitRobot ==
  /\ stop = FALSE
  /\ \/ robotConfig = Null /\ numCreated = 0
     \/ \E path \in Paths : robotConfig = qrRobotConfig_Load(path) /\ numCreated = 1
  /\ cmds \in InputCmds
  /\ got = << >>
  /\ robotOp = "ctor"
  /\ prevOp = "none"
  /\ inVec = ZeroVec12
  /\ inMat = ZeroMat
  /\ nullRead = FALSE
  /\ crashed = FALSE

ParkedRobot ==
  /\ stop = FALSE
  /\ robotConfig = Null
  /\ numCreated = 0
  /\ cmds = GenCmds(0)
  /\ got = << >>
  /\ robotOp = "ctor"
  /\ prevOp = "none"
  /\ inVec = ZeroVec12
  /\ inMat = ZeroMat
  /\ nullRead = FALSE
  /\ crashed = FALSE

DoLoadConfig ==
  /\ ~crashed
  /\ \E path \in Paths :
       LET r == LoadConfig(robotConfig, path) IN
         /\ robotConfig' = r.cfg
         /\ numCreated' = numCreated + r.created
  /\ robotOp' = "LoadConfig"
  /\ prevOp' = robotOp
  /\ UNCHANGED <<stop, cmds, got, inVec, inMat, nullRead, crashed>>

\* SetCmd(values, POSITION) on a robot that has a configuration.
DoSetCmdPosition ==
  /\ ~crashed
  /\ robotConfig # Null
  /\ \E qValues \in InputVecs :
       /\ cmds' = SetAngleCmd(cmds, robotConfig.motorKps, robotConfig.motorKds, qValues)
       /\ inVec' = qValues
  /\ inMat' = ZeroMat
  /\ robotOp' = "SetCmd_POSITION"
  /\ prevOp' = robotOp
  /\ got' = << >>
  /\ UNCHANGED <<stop, robotConfig, nullRead, crashed, numCreated>>

\* SetCmd(values, POSITION) on a default-constructed robot before any
\* LoadConfig: robotConfig->motorKps dereferences a null pointer.  The
\* read yields arbitrary gains ...
DoSetCmdPositionNullGarbage ==
  /\ ~crashed
  /\ robotConfig = Null
  /\ \E qValues \in InputVecs, Kps \in InputVecs, Kds \in InputVecs :
       /\ cmds' = SetAngleCmd(cmds, Kps, Kds, qValues)
       /\ inVec' = qValues
  /\ inMat' = ZeroMat
  /\ robotOp' = "SetCmd_POSITION"
  /\ prevOp' = robotOp
  /\ got' = << >>
  /\ nullRead' = TRUE
  /\ UNCHANGED <<stop, robotConfig, crashed, numCreated>>

\* ... or the process dies at the first read.
DoSetCmdPositionNullCrash ==
  /\ ~crashed
  /\ robotConfig = Null
  /\ \E qValues \in InputVecs : inVec' = qValues
  /\ robotOp' = "SetCmd_POSITION"
  /\ prevOp' = robotOp
  /\ got' = << >>
  /\ nullRead' = TRUE
  /\ inMat' = ZeroMat
  /\ crashed' = TRUE
  /\ UNCHANGED <<stop, robotConfig, cmds, numCreated>>

DoSetCmdTorque ==
  /\ ~crashed
  /\ \E tauValues \in InputVecs :
       /\ cmds' = SetTorqueCmd(cmds, tauValues)
       /\ inVec' = tauValues
  /\ inMat' = ZeroMat
  /\ robotOp' = "SetCmd_TORQUE"
  /\ prevOp' = robotOp
  /\ got' = << >>
  /\ UNCHANGED <<stop, robotConfig, nullRead, crashed, numCreated>>

DoSetCmdHybrid ==
  /\ ~crashed
  /\ \E cmdValues \in InputMats :
       /\ cmds' = SetHybridCmd(cmds, cmdValues)
       /\ inMat' = cmdValues
  /\ inVec' = ZeroVec12
  /\ robotOp' = "SetCmd_HYBRID"
  /\ prevOp' = robotOp
  /\ got' = << >>
  /\ UNCHANGED <<stop, robotConfig, nullRead, crashed, numCreated>>

DoSetCmdArray ==
  /\ ~crashed
  /\ \E cmd \in InputCmds : cmds' = SetCmdArray(cmds, cmd)
  /\ inVec' = ZeroVec12
  /\ inMat' = ZeroMat
  /\ robotOp' = "SetCmd_array"
  /\ prevOp' = robotOp
  /\ got' = << >>
  /\ UNCHANGED <<stop, robotConfig, nullRead, crashed, numCreated>>

DoGetCmd ==
  /\ ~crashed
  /\ got' = GetCmd(cmds)
  /\ UNCHANGED <<stop, robotConfig, cmds, robotOp, prevOp, inVec, inMat, nullRead, crashed,
                 numCreated>>

(***************************************************************************)
(* qrVelocityParamReceiver: the cached velocity command                    *)
(*                                                                         *)
(* The callback runs on the messaging layer's thread, the getters on the   *)
(* control loop's; neither takes a lock.  The callback is two steps, one   *)
(* per statement; a control tick calls the three getters in turn.          *)
(***************************************************************************)
Speeds == 0..MaxSpeed

\* geometry_msgs::Twist
Twist(a, b) == [ linear |-> [x |-> a, y |-> 0, z |-> 0],
                 angular |-> [x |-> 0, y |-> 0, z |-> b] ]
Twists == {Twist(a, b) : a \in Speeds, b \in Speeds}
NoMsg == [ linear |-> [x |-> 0 - 1, y |-> 0 - 1, z |-> 0 - 1],
           angular |-> [x |-> 0 - 1, y |-> 0 - 1, z |-> 0 - 1] ]

\* vec << v.x, v.y, v.z
Vec3(v) == <<v.x, v.y, v.z>>

\* Eigen::Matrix<float, 3, 1> GetLinearVelocity()
GetLinearVelocity(lin, ang) == lin

\* Eigen::Matrix<float, 3, 1> GetAngularVelocity()
GetAngularVelocity(lin, ang) == ang

\* float GetAngularVelocity(int axis)
GetAngularVelocityAxis(lin, ang, axis) == ang[axis + 1]

\* The constructor subscribes and leaves both vectors uninitialised.
InitVel ==
  /\ \E m \in Twists : linearVel = Vec3(m.linear) /\ angularVel = Vec3(m.angular)
  /\ cbPc = "idle"
  /\ cbMsg = NoMsg
  /\ latest = NoMsg
  /\ rdPc = "idle"
  /\ retLinear = Vec3(NoMsg.linear)
  /\ retAngular = Vec3(NoMsg.angular)
  /\ retAxis = 0 - 1
  /\ seenLinear = NoMsg
  /\ seenAngular = NoMsg

ParkedVel ==
  /\ linearVel = <<0, 0, 0>>
  /\ angularVel = <<0, 0, 0>>
  /\ cbPc = "idle"
  /\ cbMsg = NoMsg
  /\ latest = NoMsg
  /\ rdPc = "idle"
  /\ retLinear = Vec3(NoMsg.linear)
  /\ retAngular = Vec3(NoMsg.angular)
  /\ retAxis = 0 - 1
  /\ seenLinear = NoMsg
  /\ seenAngular = NoMsg

readerVars == <<rdPc, retLinear, retAngular, retAxis, seenLinear, seenAngular>>

\* VelocityParamCallback, line 49: a message arrives and its linear part is stored.
VelocityParamCallbackLinear ==
  /\ cbPc = "idle"
  /\ \E msg \in Twists :
       /\ cbMsg' = msg
       /\ latest' = msg
       /\ linearVel' = Vec3(msg.linear)
  /\ cbPc' = "line50"
  /\ UNCHANGED <<angularVel, readerVars>>

\* VelocityParamCallback, line 50: the angular part is stored.
VelocityParamCallbackAngular ==
  /\ cbPc = "line50"
  /\ angularVel' = Vec3(cbMsg.angular)
  /\ cbPc' = "idle"
  /\ UNCHANGED <<linearVel, cbMsg, latest, readerVars>>

\* The control tick's first read.
DoGetLinearVelocity ==
  /\ rdPc \in {"idle", "done"}
  /\ retLinear' = GetLinearVelocity(linearVel, angularVel)
  /\ seenLinear' = latest
  /\ rdPc' = "gotLinear"
  /\ UNCHANGED <<linearVel, angularVel, cbPc, cbMsg, latest, retAngular, retAxis,
                 seenAngular>>

\* The control tick's second read.
DoGetAngularVelocity ==
  /\ rdPc = "gotLinear"
  /\ retAngular' = GetAngularVelocity(linearVel, angularVel)
  /\ seenAngular' = latest
  /\ rdPc' = "gotAngular"
  /\ UNCHANGED <<linearVel, angularVel, cbPc, cbMsg, latest, retLinear, retAxis,
                 seenLinear>>

\* The control tick's third read: the yaw rate, axis 2.
DoGetAngularVelocityAxis ==
  /\ rdPc = "gotAngular"
  /\ retAxis' = GetAngularVelocityAxis(linearVel, angularVel, 2)
  /\ rdPc' = "done"
  /\ UNCHANGED <<linearVel, angularVel, cbPc, cbMsg, latest, retLinear, retAngular,
                 seenLinear, seenAngular>>

vars == <<contactVars, pinvVars, robotVars, velVars>>

(***************************************************************************)
(* Properties                                                              *)
(***************************************************************************)
HookOrder ==
  <<"_UpdateJc", "_UpdateJcDotQdot", "_UpdateUf", "_UpdateInequalityVector",
    "b_set_contact_">>

\* C1: after an UpdateqrContactSpec call in which some hook returned false,
\* the contact-active flag is not true and the call did not return true.
C1_FlagOnlyWhenAllHooksSucceed ==
  (contactOp = "UpdateqrContactSpec" /\ \E k \in 1..4 : ~hookRet[k])
    => (~contact.b_set_contact_ /\ ~updateRet)

\* C2: an UnsetContact call leaves the contact Jacobian, the bias term, the
\* friction matrix, the inequality vector, the desired reaction force, the
\* contact dimension and the Fz index as they were, and the flag is false
\* afterwards.
C2_UnsetContactClearsOnlyFlag ==
  [][ contactOp' = "UnsetContact" =>
        /\ contact'.Jc_ = contact.Jc_
        /\ contact'.JcDotQdot_ = contact.JcDotQdot_
        /\ contact'.Uf_ = contact.Uf_
        /\ contact'.ieq_vec_ = contact.ieq_vec_
        /\ contact'.Fr_des_ = contact.Fr_des_
        /\ contact'.dim_contact_ = contact.dim_contact_
        /\ contact'.idx_Fz_ = contact.idx_Fz_
        /\ contact'.b_set_contact_ = FALSE ]_vars

\* An active contact with all four quantities derived and a non-zero desired
\* force has been unset.
C2_Witness ==
  /\ contactOp = "UnsetContact"
  /\ flagBefore
  /\ ~contact.b_set_contact_
  /\ contact.Jc_ # 0 /\ contact.JcDotQdot_ # 0 /\ contact.Uf_ # 0 /\ contact.ieq_vec_ # 0
  /\ contact.Fr_des_ # ZeroVec(contact.dim_contact_)

\* C3: every UpdateqrContactSpec call runs _UpdateJc, _UpdateJcDotQdot,
\* _UpdateUf and _UpdateInequalityVector once each in that order and writes
\* the flag after them, whatever the flag was before the call.
C3_HooksInFixedOrder ==
  /\ callLog \in {<< >>, HookOrder}
  /\ contactOp = "UpdateqrContactSpec" => callLog = HookOrder

\* An update of a contact that was already active has run.
C3_Witness ==
  /\ contactOp = "UpdateqrContactSpec"
  /\ flagBefore
  /\ Len(callLog) = 5
  /\ contact.b_set_contact_

\* C4 as stated: after a hybrid SetCmd, joint i's command has target angle
\* input(0,i), target velocity input(1,i), position gain input(2,i), velocity
\* gain input(3,i) and feed-forward torque input(4,i).
C4_HybridRowsAsStated ==
  robotOp = "SetCmd_HYBRID" =>
    \A i \in Joints :
      /\ cmds[i].q = inMat[0][i]
      /\ cmds[i].dq = inMat[1][i]
      /\ cmds[i].Kp = inMat[2][i]
      /\ cmds[i].Kd = inMat[3][i]
      /\ cmds[i].tau = inMat[4][i]

\* C4 amended: after a hybrid SetCmd, joint i's command has target angle
\* input(0,i), position gain input(1,i), target velocity input(2,i), velocity
\* gain input(3,i) and feed-forward torque input(4,i).
C4_HybridPassThrough ==
  robotOp = "SetCmd_HYBRID" =>
    \A i \in Joints :
      /\ cmds[i].q = inMat[0][i]
      /\ cmds[i].Kp = inMat[1][i]
      /\ cmds[i].dq = inMat[2][i]
      /\ cmds[i].Kd = inMat[3][i]
      /\ cmds[i].tau = inMat[4][i]

\* A hybrid command whose rows 1 and 2 differ has been set.
C4_Witness ==
  /\ robotOp = "SetCmd_HYBRID"
  /\ \E i \in Joints : inMat[1][i] # inMat[2][i]

\* C5: after a position-mode SetCmd on a robot with a configuration, joint
\* i's command is (input[i], configured Kp[i], 0, configured Kd[i], 0),
\* whatever the array held before.
C5_PositionModeCommand ==
  (robotOp = "SetCmd_POSITION" /\ robotConfig # Null) =>
    \A i \in Joints :
      cmds[i] = [ q |-> inVec[i], Kp |-> robotConfig.motorKps[i], dq |-> 0,
                  Kd |-> robotConfig.motorKds[i], tau |-> 0 ]

\* A position command with joint-dependent angles has been set over a hybrid
\* command, under gains that differ between neighbouring joints.
C5_Witness ==
  /\ robotOp = "SetCmd_POSITION"
  /\ prevOp = "SetCmd_HYBRID"
  /\ robotConfig # Null
  /\ inVec[0] # inVec[1]
  /\ robotConfig.motorKps[0] # robotConfig.motorKps[1]
  /\ robotConfig.motorKds[0] # robotConfig.motorKds[1]

\* C6 as stated: after a position-mode SetCmd under a loaded configuration,
\* every command has velocity gain 0, target velocity 0 and torque 0.
C6_PositionModeZeroVelocityGain ==
  (robotOp = "SetCmd_POSITION" /\ robotConfig # Null) =>
    \A i \in Joints : cmds[i].Kd = 0 /\ cmds[i].dq = 0 /\ cmds[i].tau = 0

\* C6 amended: after a position-mode SetCmd under a loaded configuration,
\* every command has target velocity 0 and torque 0, and its velocity gain
\* is the configured Kd of its joint.
C6_PositionModePurity ==
  (robotOp = "SetCmd_POSITION" /\ robotConfig # Null) =>
    \A i \in Joints :
      /\ cmds[i].dq = 0
      /\ cmds[i].tau = 0
      /\ cmds[i].Kd = robotConfig.motorKds[i]

\* A position command has been set under non-zero velocity gains, over a
\* pre-built array that held non-zero velocities and torques.
C6_Witness ==
  /\ robotOp = "SetCmd_POSITION"
  /\ prevOp = "SetCmd_array"
  /\ robotConfig # Null
  /\ \E i \in Joints : robotConfig.motorKds[i] # 0

\* C7: after a torque-mode SetCmd, whatever was set before, every command
\* held and every command GetCmd returns is (0, 0, 0, 0, tau[i]).
C7_TorqueModeNoResidue ==
  robotOp = "SetCmd_TORQUE" =>
    /\ \A i \in Joints :
         cmds[i] = [q |-> 0, Kp |-> 0, dq |-> 0, Kd |-> 0, tau |-> inVec[i]]
    /\ got # << >> =>
         \A i \in Joints :
           got[i] = [q |-> 0, Kp |-> 0, dq |-> 0, Kd |-> 0, tau |-> inVec[i]]

\* GetCmd has run after a torque command that followed a hybrid command.
C7_Witness ==
  /\ robotOp = "SetCmd_TORQUE"
  /\ prevOp = "SetCmd_HYBRID"
  /\ got # << >>
  /\ \E i \in Joints : inVec[i] # 0

\* C8: the three reads of a control tick return the linear and the angular
\* velocity of one and the same message, the most recently received one.
C8_ReadsReturnLatestMessage ==
  (rdPc = "done" /\ seenLinear # NoMsg) =>
    /\ seenAngular = seenLinear
    /\ retLinear = Vec3(seenLinear.linear)
    /\ retAngular = Vec3(seenLinear.angular)
    /\ retAxis = seenLinear.angular.z

\* C9: pseudoInverse of the 1x1 matrix [m] is [1/m] when |m| is above the
\* threshold, and [0] otherwise.
C9_PseudoInverse1x1 ==
  (pinvPc = "done" /\ Len(matrix) = 1) =>
    IF Abs(matrix[1]) > sigmaThreshold
      THEN invMatrix[1].num * matrix[1] = invMatrix[1].den
      ELSE invMatrix[1] = ZeroFrac

\* C10: no position-mode SetCmd reads the gains through a null
\* configuration pointer, and at most one configuration object is created.
C10_ConfigPresentWhenRead ==
  ~nullRead /\ numCreated <= 1

(***************************************************************************)
(* Specifications                                                          *)
(***************************************************************************)
NextContact ==
  \/ DoUpdateqrContactSpec /\ UNCHANGED <<pinvVars, robotVars, velVars>>
  \/ DoUnsetContact /\ UNCHANGED <<pinvVars, robotVars, velVars>>
  \/ DoSetRFDesired /\ UNCHANGED <<pinvVars, robotVars, velVars>>

InitSpecContact == InitContact /\ ParkedPinv /\ ParkedRobot /\ ParkedVel

SpecContact == InitSpecContact /\ [][NextContact]_vars

NextPinv == DoPseudoInverse /\ UNCHANGED <<contactVars, robotVars, velVars>>

InitSpecPinv == InitPinv /\ ParkedContact /\ ParkedRobot /\ ParkedVel

SpecPinv == InitSpecPinv /\ [][NextPinv]_vars

NextRobot ==
  \/ DoLoadConfig /\ UNCHANGED <<contactVars, pinvVars, velVars>>
  \/ DoSetCmdPosition /\ UNCHANGED <<contactVars, pinvVars, velVars>>
  \/ DoSetCmdPositionNullGarbage /\ UNCHANGED <<contactVars, pinvVars, velVars>>
  \/ DoSetCmdPositionNullCrash /\ UNCHANGED <<contactVars, pinvVars, velVars>>
  \/ DoSetCmdTorque /\ UNCHANGED <<contactVars, pinvVars, velVars>>
  \/ DoSetCmdHybrid /\ UNCHANGED <<contactVars, pinvVars, velVars>>
  \/ DoSetCmdArray /\ UNCHANGED <<contactVars, pinvVars, velVars>>
  \/ DoGetCmd /\ UNCHANGED <<contactVars, pinvVars, velVars>>

InitSpecRobot == InitRobot /\ ParkedContact /\ ParkedPinv /\ ParkedVel

SpecRobot == InitSpecRobot /\ [][NextRobot]_vars

NextVel ==
  \/ VelocityParamCallbackLinear /\ UNCHANGED <<contactVars, pinvVars, robotVars>>
  \/ VelocityParamCallbackAngular /\ UNCHANGED <<contactVars, pinvVars, robotVars>>
  \/ DoGetLinearVelocity /\ UNCHANGED <<contactVars, pinvVars, robotVars>>
  \/ DoGetAngularVelocity /\ UNCHANGED <<contactVars, pinvVars, robotVars>>
  \/ DoGetAngularVelocityAxis /\ UNCHANGED <<contactVars, pinvVars, robotVars>>

InitSpecVel == InitVel /\ ParkedContact /\ ParkedPinv /\ ParkedRobot

SpecVel == InitSpecVel /\ [][NextVel]_vars

====
